---- MODULE Spec2Model ----
(***************************************************************************)
(* Model of the lesson-request / access-grant workflow of the e-learning   *)
(* platform: the tables, CHECK / UNIQUE / FOREIGN KEY constraints and      *)
(* row-level-security (RLS) policies of the SQL migrations, and the client *)
(* pages that read them.                                                   *)
(*                                                                         *)
(* PostgreSQL RLS semantics used throughout:                               *)
(*   - policies are permissive: a command is allowed on a row when at      *)
(*     least one policy for that command (or FOR ALL) passes;              *)
(*   - INSERT checks WITH CHECK on the new row and fails with an error;    *)
(*   - UPDATE / DELETE silently skip the rows the USING clause hides       *)
(*     (zero rows affected); a policy without WITH CHECK uses its USING    *)
(*     clause for the new row;                                             *)
(*   - a table with RLS enabled and no policy for a command denies it.     *)
(***************************************************************************)
EXTENDS Integers, FiniteSets, Sequences, TLC

\* ------------------------------------------------------------------ bounds
MaxRequests == 1      \* lesson_requests rows that can exist
MaxAccess == 2        \* user_lesson_access rows that can exist
MaxTime == 2          \* the clock runs 0..MaxTime
MaxHistory == 3       \* entries the browser history can hold
MaxQuestions == 2     \* questions of a quiz
MaxQuizTime == 2      \* seconds a quiz allows (quiz.timeLimit * 60)
MaxCompletions == 2   \* onComplete calls that are recorded
MaxPending == 1       \* container clicks that can wait for their timeout
MaxMoves == 3         \* handleMoveVideo calls in one run
MaxNotifications == 3 \* notifications that are ever delivered
MaxStamp == 2         \* created_at values run 1..MaxStamp
MaxRuns == 2          \* runs of the position backfill

\* ------------------------------------------------------------------ domains
Users == {"admin1", "user1", "user2"}
Roles == {"admin", "user"}
SubjectIds == {"sft", "et"}
SubjectNames == {"SFT", "ET"}
Positions == {0, 1}
LessonIds == {"l1", "l2"}
VideoIds == {"v1", "v2"}
NoLesson == "l9"      \* a lesson id that references no subject_lessons row
NoUser == "nobody"    \* "no statement yet" / "no user signed in"

Statuses == {"pending", "approved", "rejected"}
DEFAULT == "DEFAULT"  \* the column is omitted from the INSERT
StatusInputs == Statuses \cup {"cancelled", DEFAULT}

NULL == <<>>          \* expires_at IS NULL; a timestamp t is <<t>>
Timestamps == {<<t>> : t \in 1..MaxTime}
ExpiryInputs == {NULL} \cup Timestamps

VARIABLES
  role,               \* users.role, per users.id
  subjects,           \* rows [id, name]
  subject_lessons,    \* rows [id, subject_id]
  lesson_videos,      \* rows [id, lesson_id, subject_id, position]
  lesson_requests,    \* rows [id, user_id, lesson_id, subject_id, status]
  user_lesson_access, \* rows [id, user_id, lesson_id, subject_id, expires_at]
  now,                \* the database / browser clock
  last,               \* the last SQL statement: [actor, op, arg, outcome]
  userAccess,         \* EnhancedFeedPage state: Set of lesson ids
  enhancedSubjects,   \* EnhancedFeedPage state: the lessons listed, with videos
  feedSubjects,       \* FeedPage state: the lessons listed, with videos
  authUser,           \* useAuth().user: a user id, or NoUser
  isAdmin,            \* useAuth().isAdmin
  history,            \* the browser's history entries; the last is the location
  quiz,               \* QuizInterface prop: [questions, timeLimit], NULL when not mounted
  session,            \* QuizInterface state: NULL or the QuizSession
  showStartScreen,    \* QuizInterface state
  selectedAnswer,     \* QuizInterface state: an answer index, or NoAnswer for null
  timeRemaining,      \* QuizInterface state: seconds left on the clock shown
  timerClosure,       \* what the running interval's handleTimeUp closed over, or NULL
  onCompleteCalls,    \* the sessions onComplete was called with, in order
  adminSubjects,      \* AdminFeedPage state subjects: the loaded subject objects
  loading,            \* AdminFeedPage state
  selectedSubject,    \* AdminFeedPage state: NULL or a subject object
  selectedLesson,     \* AdminFeedPage state: NULL or a lesson object
  currentView,        \* AdminFeedPage state: "subjects", "lessons" or "videos"
  pendingClicks,      \* container clicks whose timeout has not fired yet
  moves,              \* handleMoveVideo calls made so far
  notificationRows,   \* notifications rows [id, user_id, read_status]
  notifications,      \* useData().notifications: [id, userId, readStatus], in order
  visibleNotifications, \* NotificationSystem state: the toasts shown, in order
  backfillRuns        \* runs of the position backfill so far

content == <<subjects, subject_lessons, lesson_videos>>
pages == <<userAccess, enhancedSubjects, feedSubjects>>
router == <<authUser, isAdmin, history>>
database == <<role, subjects, subject_lessons, lesson_videos, lesson_requests,
              user_lesson_access, now, last>>
quizState == <<quiz, session, showStartScreen, selectedAnswer, timeRemaining,
               timerClosure, onCompleteCalls>>
adminState == <<adminSubjects, loading, selectedSubject, selectedLesson,
                currentView, pendingClicks, moves>>
toastState == <<notificationRows, notifications, visibleNotifications>>
components == <<quizState, adminState, toastState, backfillRuns>>
outsideAdmin == <<pages, router, quizState, toastState, backfillRuns>>
notAdmin == <<database, outsideAdmin>>
notQuiz == <<database, pages, router, adminState, toastState, backfillRuns>>
vars == <<role, subjects, subject_lessons, lesson_videos, lesson_requests,
          user_lesson_access, now, last, userAccess, enhancedSubjects,
          feedSubjects, authUser, isAdmin, history, quiz, session,
          showStartScreen, selectedAnswer, timeRemaining, timerClosure,
          onCompleteCalls, adminSubjects, loading, selectedSubject,
          selectedLesson, currentView, pendingClicks, moves,
          notificationRows, notifications, visibleNotifications,
          backfillRuns>>

\* ------------------------------------------------------------------ policies
\* EXISTS (SELECT 1 FROM users WHERE users.id = auth.uid() AND users.role = 'admin')
IsAdmin(uid) == role[uid] = "admin"

\* lesson_requests.status DEFAULT 'pending'
StatusDefault == "pending"
StatusValue(input) == IF input = DEFAULT THEN StatusDefault ELSE input

\* the CHECK constraint left out
StatusCheckNone(status) == TRUE

\* CHECK (status IN ('pending', 'approved', 'rejected'))
StatusCheck(status) == status \in {"pending", "approved", "rejected"}

\* lesson_id ... REFERENCES subject_lessons(id)
LessonExists(lid) == \E l \in subject_lessons : l.id = lid

\* subject_id ... REFERENCES subjects(id)
SubjectExists(sid) == \E x \in subjects : x.id = sid

\* the INSERT policy written WITH CHECK (true)
RequestInsertPolicyAnyone(uid, row) == TRUE

\* "Users can create lesson requests": WITH CHECK (auth.uid() = user_id)
RequestInsertPolicy(uid, row) == uid = row.user_id

\* "Users can read own lesson requests" OR "Admin can read all lesson requests"
RequestSelectPolicy(uid, row) == uid = row.user_id \/ IsAdmin(uid)

\* "Admin can update lesson requests": USING (admin)
RequestUpdatePolicy(uid, row) == IsAdmin(uid)

\* lesson_requests has no FOR DELETE and no FOR ALL policy
RequestDeletePolicy(uid, row) == FALSE

\* SELECT * FROM lesson_requests, as user uid
SelectRequests(uid) == {r \in lesson_requests : RequestSelectPolicy(uid, r)}

\* gen_random_uuid(): a key no row of the table has
FreshId(rows, max) == CHOOSE i \in 1..(max + 1) : \A r \in rows : r.id # i

\* arg tells whether the statement leaves the status column to its DEFAULT
Stmt(actor, op, arg, outcome) ==
  [actor |-> actor, op |-> op, arg |-> arg, outcome |-> outcome]

\* ------------------------------------------------------------------ users
\* "Users can update own profile": FOR UPDATE USING (auth.uid() = id), no
\* WITH CHECK and no column restriction; role is CHECKed IN ('admin','user').
UpdateOwnProfile(actor, newRole) ==
  /\ role' = [role EXCEPT ![actor] = newRole]
  /\ last' = Stmt(actor, "update_users", "-", "ok")
  /\ UNCHANGED <<content, lesson_requests, user_lesson_access, now, pages, router,
                 components>>

\* ------------------------------------------------------------------ lesson_requests
InsertRequest(actor, uid, lid, sid, input) ==
  LET row == [id |-> FreshId(lesson_requests, MaxRequests), user_id |-> uid,
              lesson_id |-> lid, subject_id |-> sid,
              status |-> StatusValue(input)]
      outcome == IF ~RequestInsertPolicy(actor, row) THEN "rls_violation"
                 ELSE IF ~StatusCheck(row.status) THEN "check_violation"
                 ELSE IF ~(LessonExists(lid) /\ SubjectExists(sid)) THEN "fk_violation"
                 ELSE "ok"
  IN /\ outcome = "ok" => Cardinality(lesson_requests) < MaxRequests
     /\ lesson_requests' = IF outcome = "ok" THEN lesson_requests \cup {row}
                           ELSE lesson_requests
     /\ last' = Stmt(actor, "insert_request", IF input = DEFAULT THEN DEFAULT ELSE "-", outcome)
     /\ UNCHANGED <<role, content, user_lesson_access, now, pages, router, components>>

\* UPDATE lesson_requests SET status = input WHERE id = rid
UpdateRequest(actor, rid, input) ==
  LET hit == {r \in lesson_requests : r.id = rid /\ RequestUpdatePolicy(actor, r)}
      new(r) == [r EXCEPT !.status = input]
      outcome == IF hit = {} THEN "no_rows"
                 ELSE IF \E r \in hit : ~RequestUpdatePolicy(actor, new(r))
                   THEN "rls_violation"
                 ELSE IF ~StatusCheck(input) THEN "check_violation"
                 ELSE "ok"
  IN /\ input # DEFAULT
     /\ lesson_requests' = IF outcome = "ok"
                           THEN (lesson_requests \ hit) \cup {new(r) : r \in hit}
                           ELSE lesson_requests
     /\ last' = Stmt(actor, "update_request", "-", outcome)
     /\ UNCHANGED <<role, content, user_lesson_access, now, pages, router, components>>

\* DELETE FROM lesson_requests WHERE id = rid
DeleteRequest(actor, rid) ==
  LET hit == {r \in lesson_requests : r.id = rid /\ RequestDeletePolicy(actor, r)}
  IN /\ lesson_requests' = lesson_requests \ hit
     /\ last' = Stmt(actor, "delete_request", "-", IF hit = {} THEN "no_rows" ELSE "ok")
     /\ UNCHANGED <<role, content, user_lesson_access, now, pages, router, components>>

\* ------------------------------------------------------------------ user_lesson_access
\* "Users can read own lesson access" OR "Admin can manage lesson access" (FOR ALL)
AccessSelectPolicy(uid, row) == uid = row.user_id \/ IsAdmin(uid)

\* the policy also letting users insert grants for themselves
AccessInsertPolicyOwn(uid, row) == uid = row.user_id \/ IsAdmin(uid)

\* "Admin can manage lesson access": FOR ALL USING (admin); the USING clause is
\* also the WITH CHECK of INSERT and UPDATE
AccessInsertPolicy(uid, row) == IsAdmin(uid)
AccessUpdatePolicy(uid, row) == IsAdmin(uid)
AccessDeletePolicy(uid, row) == IsAdmin(uid)

\* the UNIQUE constraint left out
AccessUniqueNone(rows, row) == TRUE

\* UNIQUE(user_id, lesson_id): no other row of the table has the row's pair
AccessUnique(rows, row) ==
  \A r \in rows : r.id # row.id =>
    ~(r.user_id = row.user_id /\ r.lesson_id = row.lesson_id)

\* SELECT * FROM user_lesson_access, as user uid
SelectAccess(uid) == {r \in user_lesson_access : AccessSelectPolicy(uid, r)}

InsertAccess(actor, uid, lid, sid, expires) ==
  LET row == [id |-> FreshId(user_lesson_access, MaxAccess), user_id |-> uid,
              lesson_id |-> lid, subject_id |-> sid, expires_at |-> expires]
      outcome == IF ~AccessInsertPolicy(actor, row) THEN "rls_violation"
                 ELSE IF ~(LessonExists(lid) /\ SubjectExists(sid)) THEN "fk_violation"
                 ELSE IF ~AccessUnique(user_lesson_access, row) THEN "unique_violation"
                 ELSE "ok"
  IN /\ outcome = "ok" => Cardinality(user_lesson_access) < MaxAccess
     /\ user_lesson_access' = IF outcome = "ok" THEN user_lesson_access \cup {row}
                              ELSE user_lesson_access
     /\ last' = Stmt(actor, "insert_access", "-", outcome)
     /\ UNCHANGED <<role, content, lesson_requests, now, pages, router, components>>

\* UPDATE user_lesson_access SET lesson_id = lid, expires_at = expires WHERE id = aid
UpdateAccess(actor, aid, lid, expires) ==
  LET hit == {r \in user_lesson_access : r.id = aid /\ AccessUpdatePolicy(actor, r)}
      new(r) == [r EXCEPT !.lesson_id = lid, !.expires_at = expires]
      outcome == IF hit = {} THEN "no_rows"
                 ELSE IF \E r \in hit : ~AccessUpdatePolicy(actor, new(r))
                   THEN "rls_violation"
                 ELSE IF ~LessonExists(lid) THEN "fk_violation"
                 ELSE IF \E r \in hit : ~AccessUnique(user_lesson_access, new(r))
                   THEN "unique_violation"
                 ELSE "ok"
  IN /\ user_lesson_access' =
          IF outcome = "ok"
          THEN (user_lesson_access \ hit) \cup {new(r) : r \in hit}
          ELSE user_lesson_access
     /\ last' = Stmt(actor, "update_access", "-", outcome)
     /\ UNCHANGED <<role, content, lesson_requests, now, pages, router, components>>

\* DELETE FROM user_lesson_access WHERE id = aid
DeleteAccess(actor, aid) ==
  LET hit == {r \in user_lesson_access : r.id = aid /\ AccessDeletePolicy(actor, r)}
  IN /\ user_lesson_access' = user_lesson_access \ hit
     /\ last' = Stmt(actor, "delete_access", "-", IF hit = {} THEN "no_rows" ELSE "ok")
     /\ UNCHANGED <<role, content, lesson_requests, now, pages, router, components>>

\* ------------------------------------------------------------------ content tables
\* "Admin can insert/update/delete subjects": WITH CHECK / USING (admin)
SubjectInsertPolicy(uid, row) == IsAdmin(uid)
SubjectUpdatePolicy(uid, row) == IsAdmin(uid)
SubjectDeletePolicy(uid, row) == IsAdmin(uid)

\* "Admin can insert/update/delete subject lessons"
LessonInsertPolicy(uid, row) == IsAdmin(uid)
LessonUpdatePolicy(uid, row) == IsAdmin(uid)
LessonDeletePolicy(uid, row) == IsAdmin(uid)

\* the policy written for every authenticated user
VideoUpdatePolicyAnyone(uid, row) == TRUE

\* "Admin can insert/update/delete lesson videos"
VideoInsertPolicy(uid, row) == IsAdmin(uid)
VideoUpdatePolicy(uid, row) == IsAdmin(uid)
VideoDeletePolicy(uid, row) == IsAdmin(uid)

\* gen_random_uuid() for the tables keyed by named ids
FreshOf(ids, rows) == CHOOSE i \in ids : \A r \in rows : r.id # i
HasFresh(ids, rows) == \E i \in ids : \A r \in rows : r.id # i

\* ON DELETE CASCADE: the rows left once the lessons and subjects `gone` go
KeepByLessonAll(rows, goneLessons) == rows
KeepByLesson(rows, goneLessons) == {r \in rows : r.lesson_id \notin goneLessons}
KeepBySubject(rows, goneSubjects) == {r \in rows : r.subject_id \notin goneSubjects}

\* INSERT INTO subjects (id, name): id is the client's text key
InsertSubject(actor, sid, name) ==
  LET row == [id |-> sid, name |-> name]
      outcome == IF ~SubjectInsertPolicy(actor, row) THEN "rls_violation"
                 ELSE IF SubjectExists(sid) THEN "unique_violation"
                 ELSE "ok"
  IN /\ subjects' = IF outcome = "ok" THEN subjects \cup {row} ELSE subjects
     /\ last' = Stmt(actor, "insert_subject", "-", outcome)
     /\ UNCHANGED <<role, subject_lessons, lesson_videos, lesson_requests,
                    user_lesson_access, now, pages, router, components>>

\* UPDATE subjects SET name = name WHERE id = sid
UpdateSubject(actor, sid, name) ==
  LET hit == {x \in subjects : x.id = sid /\ SubjectUpdatePolicy(actor, x)}
      new(x) == [x EXCEPT !.name = name]
      outcome == IF hit = {} THEN "no_rows"
                 ELSE IF \E x \in hit : ~SubjectUpdatePolicy(actor, new(x))
                   THEN "rls_violation"
                 ELSE "ok"
  IN /\ subjects' = IF outcome = "ok"
                    THEN (subjects \ hit) \cup {new(x) : x \in hit}
                    ELSE subjects
     /\ last' = Stmt(actor, "update_subject", "-", outcome)
     /\ UNCHANGED <<role, subject_lessons, lesson_videos, lesson_requests,
                    user_lesson_access, now, pages, router, components>>

\* DELETE FROM subjects WHERE id = sid, with the cascades of the schema
DeleteSubject(actor, sid) ==
  LET hit == {x \in subjects : x.id = sid /\ SubjectDeletePolicy(actor, x)}
      goneSubjects == {x.id : x \in hit}
      goneLessons == {l.id : l \in {x \in subject_lessons : x.subject_id \in goneSubjects}}
      Keep(rows) == KeepByLesson(KeepBySubject(rows, goneSubjects), goneLessons)
  IN /\ subjects' = subjects \ hit
     /\ subject_lessons' = KeepBySubject(subject_lessons, goneSubjects)
     /\ lesson_videos' = Keep(lesson_videos)
     /\ lesson_requests' = Keep(lesson_requests)
     /\ user_lesson_access' = Keep(user_lesson_access)
     /\ last' = Stmt(actor, "delete_subject", "-", IF hit = {} THEN "no_rows" ELSE "ok")
     /\ UNCHANGED <<role, now, pages, router, components>>

\* INSERT INTO subject_lessons (subject_id)
InsertLesson(actor, ids, sid) ==
  LET outcome == IF ~LessonInsertPolicy(actor, [subject_id |-> sid])
                   THEN "rls_violation"
                 ELSE IF ~SubjectExists(sid) THEN "fk_violation"
                 ELSE "ok"
  IN /\ outcome = "ok" => HasFresh(ids, subject_lessons)
     /\ subject_lessons' =
          IF outcome = "ok"
          THEN subject_lessons \cup
                 {[id |-> FreshOf(ids, subject_lessons), subject_id |-> sid]}
          ELSE subject_lessons
     /\ last' = Stmt(actor, "insert_lesson", "-", outcome)
     /\ UNCHANGED <<role, subjects, lesson_videos, lesson_requests,
                    user_lesson_access, now, pages, router, components>>

\* UPDATE subject_lessons SET subject_id = sid WHERE id = lid
UpdateLesson(actor, lid, sid) ==
  LET hit == {l \in subject_lessons : l.id = lid /\ LessonUpdatePolicy(actor, l)}
      new(l) == [l EXCEPT !.subject_id = sid]
      outcome == IF hit = {} THEN "no_rows"
                 ELSE IF \E l \in hit : ~LessonUpdatePolicy(actor, new(l))
                   THEN "rls_violation"
                 ELSE IF ~SubjectExists(sid) THEN "fk_violation"
                 ELSE "ok"
  IN /\ subject_lessons' = IF outcome = "ok"
                           THEN (subject_lessons \ hit) \cup {new(l) : l \in hit}
                           ELSE subject_lessons
     /\ last' = Stmt(actor, "update_lesson", "-", outcome)
     /\ UNCHANGED <<role, subjects, lesson_videos, lesson_requests,
                    user_lesson_access, now, pages, router, components>>

\* DELETE FROM subject_lessons WHERE id = lid, with the cascades of the schema
DeleteLesson(actor, lid) ==
  LET hit == {l \in subject_lessons : l.id = lid /\ LessonDeletePolicy(actor, l)}
      goneLessons == {l.id : l \in hit}
  IN /\ subject_lessons' = subject_lessons \ hit
     /\ lesson_videos' = KeepByLesson(lesson_videos, goneLessons)
     /\ lesson_requests' = KeepByLesson(lesson_requests, goneLessons)
     /\ user_lesson_access' = KeepByLesson(user_lesson_access, goneLessons)
     /\ last' = Stmt(actor, "delete_lesson", "-", IF hit = {} THEN "no_rows" ELSE "ok")
     /\ UNCHANGED <<role, subjects, now, pages, router, components>>

\* INSERT INTO lesson_videos (lesson_id, subject_id, position)
InsertVideo(actor, ids, lid, sid, pos) ==
  LET outcome == IF ~VideoInsertPolicy(actor, [lesson_id |-> lid]) THEN "rls_violation"
                 ELSE IF ~(LessonExists(lid) /\ SubjectExists(sid)) THEN "fk_violation"
                 ELSE "ok"
  IN /\ outcome = "ok" => HasFresh(ids, lesson_videos)
     /\ lesson_videos' =
          IF outcome = "ok"
          THEN lesson_videos \cup
                 {[id |-> FreshOf(ids, lesson_videos), lesson_id |-> lid,
                   subject_id |-> sid, position |-> pos]}
          ELSE lesson_videos
     /\ last' = Stmt(actor, "insert_video", "-", outcome)
     /\ UNCHANGED <<role, subjects, subject_lessons, lesson_requests,
                    user_lesson_access, now, pages, router, components>>

\* UPDATE lesson_videos SET position = pos WHERE id = vid
UpdateVideo(actor, vid, pos) ==
  LET hit == {v \in lesson_videos : v.id = vid /\ VideoUpdatePolicy(actor, v)}
      new(v) == [v EXCEPT !.position = pos]
      outcome == IF hit = {} THEN "no_rows"
                 ELSE IF \E v \in hit : ~VideoUpdatePolicy(actor, new(v))
                   THEN "rls_violation"
                 ELSE "ok"
  IN /\ lesson_videos' = IF outcome = "ok"
                         THEN (lesson_videos \ hit) \cup {new(v) : v \in hit}
                         ELSE lesson_videos
     /\ last' = Stmt(actor, "update_video", "-", outcome)
     /\ UNCHANGED <<role, subjects, subject_lessons, lesson_requests,
                    user_lesson_access, now, pages, router, components>>

\* DELETE FROM lesson_videos WHERE id = vid
DeleteVideo(actor, vid) ==
  LET hit == {v \in lesson_videos : v.id = vid /\ VideoDeletePolicy(actor, v)}
  IN /\ lesson_videos' = lesson_videos \ hit
     /\ last' = Stmt(actor, "delete_video", "-", IF hit = {} THEN "no_rows" ELSE "ok")
     /\ UNCHANGED <<role, subjects, subject_lessons, lesson_requests,
                    user_lesson_access, now, pages, router, components>>

\* ------------------------------------------------------------------ clock
Tick ==
  /\ now < MaxTime
  /\ now' = now + 1
  /\ UNCHANGED <<role, content, lesson_requests, user_lesson_access, last, pages,
                 router, components>>

\* ------------------------------------------------------------------ feed pages
Viewer == "user1"     \* the user signed in to the browser showing the feed pages

\* "Anyone can read subjects / subject lessons / lesson videos": USING (true)
ContentSelectPolicy(uid, row) == TRUE
SelectSubjects(uid) == {s \in subjects : ContentSelectPolicy(uid, s)}
SelectLessons(uid) == {l \in subject_lessons : ContentSelectPolicy(uid, l)}
SelectVideos(uid) == {v \in lesson_videos : ContentSelectPolicy(uid, v)}

\* a listed lesson: its id and the ids of the videos listed under it
Listed(uid, lesson) ==
  [id |-> lesson.id,
   videos |-> {v.id : v \in {x \in SelectVideos(uid) : x.lesson_id = lesson.id}}]

\* EnhancedFeedPage.loadSubjects: per subject, its lessons the access set has
OrganizeEnhanced(uid, access) ==
  {Listed(uid, l) : l \in {x \in SelectLessons(uid) :
      /\ \E s \in SelectSubjects(uid) : x.subject_id = s.id
      /\ x.id \in access}}

\* FeedPage.loadSubjects: per subject, its lessons
OrganizeFeed(uid) ==
  {Listed(uid, l) : l \in {x \in SelectLessons(uid) :
      \E s \in SelectSubjects(uid) : x.subject_id = s.id}}

\* .from('user_lesson_access').select('lesson_id').eq('user_id', user.id)
AccessQuery(uid) == {r.lesson_id : r \in {x \in SelectAccess(uid) : x.user_id = uid}}

\* EnhancedFeedPage.loadUserAccess, and the effect on [userAccess] that runs
\* loadSubjects with the new set
LoadUserAccess ==
  /\ userAccess' = AccessQuery(Viewer)
  /\ enhancedSubjects' = OrganizeEnhanced(Viewer, userAccess')
  /\ last' = Stmt(Viewer, "select_access", "-", "ok")
  /\ UNCHANGED <<role, content, lesson_requests, user_lesson_access, now,
                 feedSubjects, router, components>>

\* FeedPage.loadSubjects (runs on mount)
FeedLoadSubjects ==
  /\ feedSubjects' = OrganizeFeed(Viewer)
  /\ last' = Stmt(Viewer, "select_videos", "-", "ok")
  /\ UNCHANGED <<role, content, lesson_requests, user_lesson_access, now,
                 userAccess, enhancedSubjects, router, components>>

\* ------------------------------------------------------------------ App routes
Paths == {"/", "/admin", "/dashboard", "/other"}

Screen(name) == [kind |-> "screen", name |-> name, to |-> "-"]
Navigate(to) == [kind |-> "navigate", name |-> "-", to |-> to]

\* the /admin route without its isAdmin test
RouteElementUnguarded(admin, path) ==
  CASE path = "/" -> Navigate(IF admin THEN "/admin" ELSE "/dashboard")
    [] path = "/admin" -> Screen("AdminDashboard")
    [] path = "/dashboard" -> Screen("UserDashboard")
    [] OTHER -> Navigate("/")

\* <Routes>: the element of the route that matches path
RouteElement(admin, path) ==
  CASE path = "/" -> Navigate(IF admin THEN "/admin" ELSE "/dashboard")
    [] path = "/admin" -> IF admin THEN Screen("AdminDashboard")
                          ELSE Navigate("/dashboard")
    [] path = "/dashboard" -> Screen("UserDashboard")
    [] OTHER -> Navigate("/")

Location == history[Len(history)]

\* AppRoutes: what it returns for the current auth state and location
AppRoutes ==
  IF authUser = NoUser THEN Screen("AuthScreen")
  ELSE RouteElement(isAdmin, Location)

\* the screen on display ("-" while a <Navigate> is rendered)
Rendered == AppRoutes.name

\* useAuth() reports another session state
AuthChange(u, admin) ==
  /\ <<authUser, isAdmin>> # <<u, admin>>
  /\ authUser' = u
  /\ isAdmin' = admin
  /\ UNCHANGED <<role, content, lesson_requests, user_lesson_access, now, last,
                 pages, history, components>>

\* the user follows a link or types an address: a new history entry
Visit(path) ==
  /\ Len(history) < MaxHistory
  /\ history' = Append(history, path)
  /\ UNCHANGED <<role, content, lesson_requests, user_lesson_access, now, last,
                 pages, authUser, isAdmin, components>>

\* the browser's Back button
Back ==
  /\ Len(history) > 1
  /\ history' = SubSeq(history, 1, Len(history) - 1)
  /\ UNCHANGED <<role, content, lesson_requests, user_lesson_access, now, last,
                 pages, authUser, isAdmin, components>>

\* a rendered <Navigate to=... replace />: the location is replaced
Redirect ==
  /\ AppRoutes.kind = "navigate"
  /\ history' = [history EXCEPT ![Len(history)] = AppRoutes.to]
  /\ UNCHANGED <<role, content, lesson_requests, user_lesson_access, now, last,
                 pages, authUser, isAdmin, components>>

\* ------------------------------------------------------------------ QuizInterface
\* The component is modelled with React's semantics: a handler runs to its end on
\* the state of the render that created it, its setState calls are applied
\* together when it returns (a later write to the same state wins), and an effect
\* runs again only when one of its dependencies changed.  The component renders
\* the question screen for every non-null session, completed or not.
NoAnswer == -1        \* selectedAnswer === null
Answers == {0, 1}     \* the option indexes of a question

\* quiz.questions of an n-question quiz: ids 1..n, each with its correctAnswer
Questions(n) == [i \in 1..n |-> [id |-> i, correctAnswer |-> i % 2]]

\* the quiz prop; seconds is quiz.timeLimit * 60
Quizzes ==
  {[questions |-> Questions(n), seconds |-> t] :
     n \in 1..MaxQuestions, t \in 0..MaxQuizTime}

IsLastQuestion(s) == s.currentQuestionIndex = Len(quiz.questions) - 1
CurrentQuestion(s) == quiz.questions[s.currentQuestionIndex + 1]

\* the QuizResponse built for the current question of s
Response(s, sel) ==
  [questionId |-> CurrentQuestion(s).id,
   selectedAnswer |-> sel,
   isCorrect |-> (sel = CurrentQuestion(s).correctAnswer),
   timeSpent |-> 30]

\* the state a handler has written so far
Pending ==
  [session |-> session, selectedAnswer |-> selectedAnswer,
   onCompleteCalls |-> onCompleteCalls]

\* handleNextQuestion, run in a closure holding s, sel and time, after writes w
NextQuestionWritesAlways(s, sel, time, w) ==
  IF s = NULL THEN w
  ELSE LET updatedResponses == Append(s.responses, Response(s, sel)) IN
       IF s.currentQuestionIndex < Len(quiz.questions) - 1
       THEN [w EXCEPT !.session = [s EXCEPT !.currentQuestionIndex = @ + 1,
                                            !.responses = updatedResponses],
                      !.selectedAnswer = NoAnswer]
       ELSE LET completedSession ==
                  [s EXCEPT !.responses = updatedResponses,
                            !.isCompleted = TRUE,
                            !.timeRemaining = time]
            IN [w EXCEPT !.session = completedSession,
                         !.onCompleteCalls = Append(@, completedSession)]
NextQuestionWrites(s, sel, time, w) ==
  IF s = NULL \/ sel = NoAnswer THEN w
  ELSE LET updatedResponses == Append(s.responses, Response(s, sel)) IN
       IF s.currentQuestionIndex < Len(quiz.questions) - 1
       THEN [w EXCEPT !.session = [s EXCEPT !.currentQuestionIndex = @ + 1,
                                            !.responses = updatedResponses],
                      !.selectedAnswer = NoAnswer]
       ELSE LET completedSession ==
                  [s EXCEPT !.responses = updatedResponses,
                            !.isCompleted = TRUE,
                            !.timeRemaining = time]
            IN [w EXCEPT !.session = completedSession,
                         !.onCompleteCalls = Append(@, completedSession)]

\* handleSubmitQuiz
SubmitQuizWrites(s, sel, time, w) ==
  IF s = NULL \/ sel = NoAnswer THEN w
  ELSE LET updatedResponses == Append(s.responses, Response(s, sel))
           completedSession ==
             [s EXCEPT !.responses = updatedResponses,
                       !.isCompleted = TRUE,
                       !.timeRemaining = time]
       IN [w EXCEPT !.session = completedSession,
                    !.onCompleteCalls = Append(@, completedSession)]

\* responses.slice(0, n)
Slice(responses, n) ==
  SubSeq(responses, 1, IF n < Len(responses) THEN n ELSE Len(responses))

\* handlePreviousQuestion
PreviousQuestionWrites(s, w) ==
  IF s = NULL \/ s.currentQuestionIndex = 0 THEN w
  ELSE LET previousResponseIndex == s.currentQuestionIndex - 1
           updatedResponses == Slice(s.responses, s.currentQuestionIndex)
       IN [w EXCEPT !.session = [s EXCEPT !.currentQuestionIndex = @ - 1,
                                          !.responses = updatedResponses],
                    !.selectedAnswer =
                       IF previousResponseIndex < Len(s.responses)
                       THEN s.responses[previousResponseIndex + 1].selectedAnswer
                       ELSE NoAnswer]

\* the completedSession of handleTimeUp
TimeUpSessionOpen(s) == [s EXCEPT !.timeRemaining = 0]
TimeUpSession(s) == [s EXCEPT !.isCompleted = TRUE, !.timeRemaining = 0]

\* handleTimeUp, run in a closure holding s, sel and time
TimeUpWrites(s, sel, time, w) ==
  IF s = NULL THEN w
  ELSE LET afterNext == IF sel # NoAnswer
                        THEN NextQuestionWrites(s, sel, time, w)
                        ELSE w
       IN [afterNext EXCEPT !.session = TimeUpSession(s),
                            !.onCompleteCalls = Append(@, TimeUpSession(s))]

\* the timer effect, run after a render in which session or showStartScreen
\* changed: no interval for a null or completed session or on the start screen;
\* otherwise the interval calls the handleTimeUp of that render
TimerEffect(s, start, sel, time) ==
  IF s = NULL \/ s.isCompleted \/ start THEN NULL
  ELSE [selectedAnswer |-> sel, timeRemaining |-> time]

\* the render after a handler that wrote w and left the clock at time:
\* session is a new object, so the timer effect runs again
Commit(w, time) ==
  /\ session' = w.session
  /\ selectedAnswer' = w.selectedAnswer
  /\ onCompleteCalls' = w.onCompleteCalls
  /\ timerClosure' = TimerEffect(w.session, FALSE, w.selectedAnswer, time)

QuizShown == quiz # NULL /\ ~showStartScreen /\ session # NULL

\* "Start" on the start screen
StartQuiz ==
  /\ quiz # NULL
  /\ showStartScreen
  /\ timeRemaining' = quiz.seconds
  /\ showStartScreen' = FALSE
  /\ Commit([session |-> [currentQuestionIndex |-> 0,
                          responses |-> <<>>,
                          timeRemaining |-> quiz.seconds,
                          isCompleted |-> FALSE],
             selectedAnswer |-> NoAnswer,
             onCompleteCalls |-> onCompleteCalls],
            quiz.seconds)
  /\ UNCHANGED <<notQuiz, quiz>>

\* a click on an option; the timer effect does not run again
handleAnswerSelect(answerIndex) ==
  /\ QuizShown
  /\ selectedAnswer' = answerIndex
  /\ UNCHANGED <<notQuiz, quiz, session, showStartScreen,
                 timeRemaining, timerClosure, onCompleteCalls>>

\* a click on the Next button, rendered on every question but the last
handleNextQuestion ==
  /\ QuizShown
  /\ ~IsLastQuestion(session)
  /\ selectedAnswer # NoAnswer
  /\ Commit(NextQuestionWrites(session, selectedAnswer, timeRemaining, Pending),
            timeRemaining)
  /\ UNCHANGED <<notQuiz, quiz, showStartScreen, timeRemaining>>

\* a click on the Submit button, rendered on the last question
handleSubmitQuiz ==
  /\ QuizShown
  /\ IsLastQuestion(session)
  /\ selectedAnswer # NoAnswer
  /\ Len(onCompleteCalls) < MaxCompletions
  /\ Commit(SubmitQuizWrites(session, selectedAnswer, timeRemaining, Pending),
            timeRemaining)
  /\ UNCHANGED <<notQuiz, quiz, showStartScreen, timeRemaining>>

\* a click on the Previous button, disabled on the first question
handlePreviousQuestion ==
  /\ QuizShown
  /\ session.currentQuestionIndex # 0
  /\ Commit(PreviousQuestionWrites(session, Pending), timeRemaining)
  /\ UNCHANGED <<notQuiz, quiz, showStartScreen, timeRemaining>>

\* one firing of the interval: setTimeRemaining's updater, which calls the
\* handleTimeUp the effect closed over when a second or less is left
TimerTickSkips ==
  /\ timerClosure # NULL
  /\ IF timeRemaining <= 1
     THEN /\ timeRemaining' = 0
          /\ Commit(TimeUpWrites(session, timerClosure.selectedAnswer,
                                 timerClosure.timeRemaining, Pending), 0)
     ELSE /\ timeRemaining' = timeRemaining - 2
          /\ UNCHANGED <<session, selectedAnswer, timerClosure, onCompleteCalls>>
  /\ UNCHANGED <<notQuiz, quiz, showStartScreen>>
TimerTick ==
  /\ timerClosure # NULL
  /\ IF timeRemaining <= 1
     THEN /\ timeRemaining' = 0
          /\ Commit(TimeUpWrites(session, timerClosure.selectedAnswer,
                                 timerClosure.timeRemaining, Pending), 0)
     ELSE /\ timeRemaining' = timeRemaining - 1
          /\ UNCHANGED <<session, selectedAnswer, timerClosure, onCompleteCalls>>
  /\ UNCHANGED <<notQuiz, quiz, showStartScreen>>

\* what a handler of QuizInterface leaves alone besides the component's state
quizFrame == <<role, subjects, subject_lessons, lesson_videos, lesson_requests,
               user_lesson_access, now, pages, router, adminState, toastState,
               backfillRuns>>

\* a handler called with writes w: nothing was written when it returned at its
\* first line, and then no render follows; `last` records the call
Called(op, w) ==
  /\ IF w = Pending
     THEN UNCHANGED <<session, selectedAnswer, onCompleteCalls, timerClosure>>
     ELSE Commit(w, timeRemaining)
  /\ last' = Stmt(authUser, op, "-", IF w = Pending THEN "return" ELSE "done")
  /\ UNCHANGED <<quizFrame, quiz, showStartScreen, timeRemaining>>

\* the three navigation handlers called on the question screen of a session
\* that is not completed, whether or not the button that calls them is enabled
CallNextQuestion ==
  /\ QuizShown /\ ~session.isCompleted
  /\ Called("next", NextQuestionWrites(session, selectedAnswer, timeRemaining, Pending))

CallSubmitQuiz ==
  /\ QuizShown /\ ~session.isCompleted
  /\ Called("submit", SubmitQuizWrites(session, selectedAnswer, timeRemaining, Pending))

CallPreviousQuestion ==
  /\ QuizShown /\ ~session.isCompleted
  /\ Called("previous", PreviousQuestionWrites(session, Pending))

\* ------------------------------------------------------------------ AdminFeedPage
AdminUser == "admin1" \* the user signed in on the admin page
AdminVideoIds == {"v1", "v2", "v3", "v4"}
NoVideo == "v9"       \* an id no video of the page has
Directions == {"up", "down"}

\* every order of the rows of S
Perms(S) ==
  {q \in [1..Cardinality(S) -> S] :
     \A i, j \in 1..Cardinality(S) : i # j => q[i] # q[j]}

\* .order('position', { ascending: true }): any order of the rows that is
\* ascending in position; rows of equal position come in an unspecified order
QueryOrders(rows) ==
  {q \in Perms(rows) : \A i \in 1..(Len(q) - 1) : q[i].position <= q[i + 1].position}

\* .map((video, index) => ({ id, position: video.position || index }))
MapVideos(q) ==
  [i \in 1..Len(q) |->
     [id |-> q[i].id,
      position |-> IF q[i].position # 0 THEN q[i].position ELSE i - 1]]

\* Array.prototype.sort with (a, b) => a.position - b.position: stable
InsertByPosition(sorted, x) ==
  SelectSeq(sorted, LAMBDA y : y.position <= x.position) \o <<x>>
    \o SelectSeq(sorted, LAMBDA y : y.position > x.position)

RECURSIVE SortByPosition(_)
SortByPosition(q) ==
  IF Len(q) = 0 THEN <<>>
  ELSE InsertByPosition(SortByPosition(SubSeq(q, 1, Len(q) - 1)), q[Len(q)])

VideosOf(uid, lid) == {v \in SelectVideos(uid) : v.lesson_id = lid}

\* the orders the videos query can return, one per lesson
QueryChoices(uid) ==
  LET ids == {l.id : l \in SelectLessons(uid)}
      all == UNION {QueryOrders(VideosOf(uid, l)) : l \in ids}
  IN {f \in [ids -> all] : \A l \in ids : f[l] \in QueryOrders(VideosOf(uid, l))}

\* organizedSubjects for the query result f
Organized(uid, f) ==
  {[id |-> s.id,
    lessons |-> {[id |-> l.id,
                  subjectId |-> s.id,
                  videos |-> SortByPosition(MapVideos(f[l.id]))] :
                   l \in {x \in SelectLessons(uid) : x.subject_id = s.id}}] :
     s \in SelectSubjects(uid)}

\* what loadSubjects can put into the subjects state
Loads(uid) == {Organized(uid, f) : f \in QueryChoices(uid)}

\* the page's first loadSubjects, from its mount effect
AdminLoadSubjects ==
  /\ loading
  /\ adminSubjects' \in Loads(AdminUser)
  /\ loading' = FALSE
  /\ UNCHANGED <<notAdmin, selectedSubject,
                 selectedLesson, currentView, pendingClicks, moves,
          notificationRows, notifications, visibleNotifications,
          backfillRuns>>

\* a click on a subject or lesson container: handleContainerClick sets a
\* 1500 ms timeout for the action, which holds the object rendered at the click
ContainerClick(kind, target) ==
  /\ ~loading
  /\ \/ kind = "subject" /\ currentView = "subjects" /\ target \in adminSubjects
     \/ /\ kind = "lesson" /\ currentView = "lessons" /\ selectedSubject # NULL
        /\ target \in selectedSubject.lessons
  /\ Cardinality(pendingClicks) < MaxPending
  /\ pendingClicks' = pendingClicks \cup {[kind |-> kind, target |-> target]}
  /\ UNCHANGED <<notAdmin, adminSubjects, loading,
                 selectedSubject, selectedLesson, currentView, moves>>

\* the timeout fires: handleSubjectClick(subject) or handleLessonClick(lesson)
ClickTimeout(click) ==
  /\ click \in pendingClicks
  /\ pendingClicks' = pendingClicks \ {click}
  /\ IF click.kind = "subject"
     THEN /\ selectedSubject' = click.target
          /\ currentView' = "lessons"
          /\ UNCHANGED selectedLesson
     ELSE /\ selectedLesson' = click.target
          /\ currentView' = "videos"
          /\ UNCHANGED selectedSubject
  /\ UNCHANGED <<notAdmin, adminSubjects, loading, moves>>

\* the back button of the lessons view, rendered when a subject is selected
handleBackToSubjects ==
  /\ ~loading
  /\ currentView = "lessons"
  /\ selectedSubject # NULL
  /\ selectedSubject' = NULL
  /\ selectedLesson' = NULL
  /\ currentView' = "subjects"
  /\ UNCHANGED <<notAdmin, adminSubjects, loading,
                 pendingClicks, moves>>

handleBackToLessons ==
  /\ ~loading
  /\ currentView = "videos"
  /\ selectedLesson # NULL /\ selectedSubject # NULL
  /\ selectedLesson' = NULL
  /\ currentView' = "lessons"
  /\ UNCHANGED <<notAdmin, adminSubjects, loading,
                 selectedSubject, pendingClicks, moves>>

\* videos.findIndex(v => v.id === videoId), 0-based, -1 when absent
FindIndex(videos, videoId) ==
  IF \E i \in 1..Len(videos) : videos[i].id = videoId
  THEN (CHOOSE i \in 1..Len(videos) :
          /\ videos[i].id = videoId
          /\ \A j \in 1..(i - 1) : videos[j].id # videoId) - 1
  ELSE -1

\* [videos[a], videos[b]] = [videos[b], videos[a]], 0-based
Swap(videos, a, b) ==
  [videos EXCEPT ![a + 1] = videos[b + 1], ![b + 1] = videos[a + 1]]

\* for i: UPDATE lesson_videos SET position = i WHERE id = videos[i].id, each
\* under the update policy (a row the policy hides is skipped without an error)
WritePositions(actor, rows, videos) ==
  {IF /\ \E i \in 1..Len(videos) : videos[i].id = v.id
      /\ VideoUpdatePolicy(actor, v)
   THEN [v EXCEPT !.position =
           (CHOOSE i \in 1..Len(videos) :
              /\ videos[i].id = v.id
              /\ \A j \in (i + 1)..Len(videos) : videos[j].id # v.id) - 1]
   ELSE v : v \in rows}

\* handleMoveVideo: the swap is made in selectedLesson.videos, the list the
\* lesson object held when it was clicked; loadSubjects refreshes subjects only
handleMoveVideo(videoId, direction) ==
  /\ ~loading
  /\ currentView = "videos"
  /\ selectedLesson # NULL /\ selectedSubject # NULL
  /\ moves < MaxMoves
  /\ moves' = moves + 1
  /\ UNCHANGED <<role, subjects, subject_lessons, lesson_requests,
                 user_lesson_access, now, outsideAdmin, loading,
                 selectedSubject, selectedLesson, currentView, pendingClicks>>
  /\ LET videos == selectedLesson.videos
         currentIndex == FindIndex(videos, videoId)
         newIndex == IF direction = "up" THEN currentIndex - 1 ELSE currentIndex + 1
     IN IF currentIndex = -1 \/ newIndex < 0 \/ newIndex >= Len(videos)
        THEN /\ last' = Stmt(AdminUser, "move_" \o direction, videoId, "none")
             /\ UNCHANGED <<lesson_videos, adminSubjects>>
        ELSE /\ lesson_videos' =
                  WritePositions(AdminUser, lesson_videos,
                                 Swap(videos, currentIndex, newIndex))
             /\ last' = Stmt(AdminUser, "move_" \o direction, videoId, "ok")
             /\ adminSubjects' \in Loads(AdminUser)'

\* the ids gen_random_uuid() gives the videos added on the page
AddVideoIds == {"v5"}

\* handleAddVideo: the new row takes selectedLesson.videos.length for its
\* position, the length of the list the lesson object held when it was clicked
handleAddVideo ==
  /\ ~loading
  /\ currentView = "videos"
  /\ selectedLesson # NULL /\ selectedSubject # NULL
  /\ HasFresh(AddVideoIds, lesson_videos)
  /\ UNCHANGED <<role, subjects, subject_lessons, lesson_requests,
                 user_lesson_access, now, outsideAdmin, loading,
                 selectedSubject, selectedLesson, currentView, pendingClicks,
                 moves, last>>
  /\ LET row == [id |-> FreshOf(AddVideoIds, lesson_videos),
                 lesson_id |-> selectedLesson.id,
                 subject_id |-> selectedSubject.id,
                 position |-> Len(selectedLesson.videos)]
     IN IF VideoInsertPolicy(AdminUser, row)
        THEN /\ lesson_videos' = lesson_videos \cup {row}
             /\ adminSubjects' \in Loads(AdminUser)'
        ELSE UNCHANGED <<lesson_videos, adminSubjects>>

\* handleDeleteVideo, confirmed, for a video of the list the page shows
handleDeleteVideo(videoId) ==
  /\ ~loading
  /\ currentView = "videos"
  /\ selectedLesson # NULL
  /\ \E i \in 1..Len(selectedLesson.videos) : selectedLesson.videos[i].id = videoId
  /\ UNCHANGED <<role, subjects, subject_lessons, lesson_requests,
                 user_lesson_access, now, outsideAdmin, loading,
                 selectedSubject, selectedLesson, currentView, pendingClicks,
                 moves, last>>
  /\ lesson_videos' =
       {v \in lesson_videos : ~(v.id = videoId /\ VideoDeletePolicy(AdminUser, v))}
  /\ adminSubjects' \in Loads(AdminUser)'

\* ------------------------------------------------------------------ notifications
NotificationIds == 1..MaxNotifications
ToastUsers == {"user1", "user2"}

\* "Users can read own notifications": USING (auth.uid() = user_id)
NotificationSelectPolicy(uid, row) == uid = row.user_id
\* "Users can update own notifications": USING (auth.uid() = user_id); without
\* a WITH CHECK clause the new row is checked with the same expression
NotificationUpdatePolicyAnyone(uid, row) == TRUE
NotificationUpdatePolicy(uid, row) == uid = row.user_id
\* no policy FOR DELETE
NotificationDeletePolicy(uid, row) == FALSE

SelectNotifications(uid) ==
  {n \in notificationRows : NotificationSelectPolicy(uid, n)}

\* UPDATE notifications SET user_id = uid, read_status = read WHERE id = nid
UpdateNotification(actor, nid, uid, read) ==
  LET hit == {n \in notificationRows : n.id = nid /\ NotificationUpdatePolicy(actor, n)}
      new(n) == [n EXCEPT !.user_id = uid, !.read_status = read]
      outcome == IF hit = {} THEN "no_rows"
                 ELSE IF \E n \in hit : ~NotificationUpdatePolicy(actor, new(n))
                   THEN "rls_violation"
                 ELSE IF uid \notin Users THEN "fk_violation"
                 ELSE "ok"
  IN /\ notificationRows' = IF outcome = "ok"
                            THEN (notificationRows \ hit) \cup {new(n) : n \in hit}
                            ELSE notificationRows
     /\ last' = Stmt(actor, "update_notification", "-", outcome)
     /\ UNCHANGED <<role, content, lesson_requests, user_lesson_access, now,
                    pages, router, quizState, adminState, notifications,
                    visibleNotifications, backfillRuns>>

\* DELETE FROM notifications WHERE id = nid
DeleteNotification(actor, nid) ==
  LET hit == {n \in notificationRows : n.id = nid /\ NotificationDeletePolicy(actor, n)}
  IN /\ notificationRows' = notificationRows \ hit
     /\ last' = Stmt(actor, "delete_notification", "-",
                     IF hit = {} THEN "no_rows" ELSE "ok")
     /\ UNCHANGED <<role, content, lesson_requests, user_lesson_access, now,
                    pages, router, quizState, adminState, notifications,
                    visibleNotifications, backfillRuns>>

\* ------------------------------------------------------------------ NotificationSystem
\* useData() delivers one more notification (polled or received)
ReceiveNotification(uid, read) ==
  /\ Len(notifications) < MaxNotifications
  /\ notifications' = Append(notifications,
                             [id |-> Len(notifications) + 1,
                              userId |-> uid,
                              readStatus |-> read])
  /\ UNCHANGED <<database, notificationRows, pages, router, quizState,
                 adminState, visibleNotifications, backfillRuns>>

\* markNotificationRead(notificationId) of useData()
MarkNotificationRead(list, notificationId) ==
  [i \in 1..Len(list) |->
     IF list[i].id = notificationId
     THEN [list[i] EXCEPT !.readStatus = TRUE]
     ELSE list[i]]

IsVisible(notificationId) ==
  \E i \in 1..Len(visibleNotifications) : visibleNotifications[i].id = notificationId

\* newNotifications of the effect, for the signed-in user
NewNotifications ==
  SelectSeq(notifications,
            LAMBDA n : n.userId = authUser /\ ~n.readStatus /\ ~IsVisible(n.id))

\* array.slice(-3)
LastThree(list) ==
  SubSeq(list, IF Len(list) > 3 THEN Len(list) - 2 ELSE 1, Len(list))

\* the new-notification effect, which runs for a signed-in user after a render
\* in which notifications, user or visibleNotifications changed
ShowNewNotifications ==
  /\ authUser # NoUser
  /\ Len(NewNotifications) > 0
  /\ visibleNotifications' = visibleNotifications \o LastThree(NewNotifications)
  /\ UNCHANGED <<database, notificationRows, pages, router, quizState,
                 adminState, notifications, backfillRuns>>

\* handleClose(notificationId)
CloseKeeps(list, notificationId) == list
Close(list, notificationId) == SelectSeq(list, LAMBDA n : n.id # notificationId)

\* a click on the X of a toast
handleClose(notificationId) ==
  /\ IsVisible(notificationId)
  /\ notifications' = MarkNotificationRead(notifications, notificationId)
  /\ visibleNotifications' = Close(visibleNotifications, notificationId)
  /\ last' = Stmt(authUser, "close", "-", "click")
  /\ UNCHANGED <<role, content, lesson_requests, user_lesson_access, now,
                 notificationRows, pages, router, quizState, adminState,
                 backfillRuns>>

\* the 5000 ms timeout the auto-remove effect set for a visible toast fires; the
\* effect sets a fresh timeout for every visible toast whenever the list changes
AutoRemove(notificationId) ==
  /\ IsVisible(notificationId)
  /\ notifications' = MarkNotificationRead(notifications, notificationId)
  /\ visibleNotifications' = Close(visibleNotifications, notificationId)
  /\ last' = Stmt(authUser, "close", "-", "timeout")
  /\ UNCHANGED <<role, content, lesson_requests, user_lesson_access, now,
                 notificationRows, pages, router, quizState, adminState,
                 backfillRuns>>

\* useAuth() reports a user: AppRoutes renders the routes and mounts
\* NotificationSystem, whose visibleNotifications starts empty
ToastSignIn(u) ==
  /\ authUser = NoUser
  /\ authUser' = u
  /\ isAdmin' = IsAdmin(u)
  /\ visibleNotifications' = <<>>
  /\ UNCHANGED <<database, notificationRows, pages, history, quizState,
                 adminState, notifications, backfillRuns>>

\* useAuth() reports no user: AppRoutes renders AuthScreen alone, which
\* unmounts NotificationSystem; its state is discarded and its timeouts cleared
ToastSignOut ==
  /\ authUser # NoUser
  /\ authUser' = NoUser
  /\ isAdmin' = FALSE
  /\ visibleNotifications' = <<>>
  /\ UNCHANGED <<database, notificationRows, pages, history, quizState,
                 adminState, notifications, backfillRuns>>

\* ------------------------------------------------------------------ position backfill
MigrationVideoIds == {"v1", "v2", "v3"}
Stamps == 1..MaxStamp \* created_at values; now() is the same within a transaction
MigrationRole == "postgres" \* migrations run as the table owner, outside RLS

\* lesson_videos as the migration finds it: created_at is set, and position
\* holds the DEFAULT 0 that ADD COLUMN gave every row
MigrationRows(lessonOf, createdAt) ==
  {[id |-> v, lesson_id |-> lessonOf[v], subject_id |-> "sft",
    position |-> 0, created_at |-> createdAt[v]] : v \in MigrationVideoIds}

\* SELECT id ... ORDER BY created_at ASC: any order ascending in created_at;
\* rows of equal created_at come in an unspecified order
CreatedOrders(rows) ==
  {q \in Perms(rows) :
     \A i \in 1..(Len(q) - 1) : q[i].created_at <= q[i + 1].created_at}

\* the inner loop: UPDATE ... SET position = pos for the ids in cursor order
Numbered(q) == {[q[i] EXCEPT !.position = i - 1] : i \in 1..Len(q)}

\* SELECT DISTINCT lesson_id FROM lesson_videos
BackfillLessons == {v.lesson_id : v \in lesson_videos}

\* the cursor orders one run of the DO block can see, one per lesson
BackfillChoices ==
  LET rowsOf(l) == {v \in lesson_videos : v.lesson_id = l}
      all == UNION {CreatedOrders(rowsOf(l)) : l \in BackfillLessons}
  IN {f \in [BackfillLessons -> all] :
        \A l \in BackfillLessons : f[l] \in CreatedOrders(rowsOf(l))}

\* one run of the DO block of lines 29-48, a single transaction
Backfill ==
  /\ backfillRuns < MaxRuns
  /\ backfillRuns' = backfillRuns + 1
  /\ \E f \in BackfillChoices :
       lesson_videos' = UNION {Numbered(f[l]) : l \in BackfillLessons}
  /\ last' = Stmt(MigrationRole, "backfill", "-", "ok")
  /\ UNCHANGED <<role, subjects, subject_lessons, lesson_requests,
                 user_lesson_access, now, pages, router, quizState, adminState,
                 toastState>>

\* ------------------------------------------------------------------ specification
\* no QuizInterface is mounted
QuizIdle ==
  /\ quiz = NULL
  /\ session = NULL
  /\ showStartScreen = TRUE
  /\ selectedAnswer = NoAnswer
  /\ timeRemaining = 0
  /\ timerClosure = NULL
  /\ onCompleteCalls = <<>>

\* no AdminFeedPage is mounted
AdminIdle ==
  /\ adminSubjects = {}
  /\ loading = TRUE
  /\ selectedSubject = NULL
  /\ selectedLesson = NULL
  /\ currentView = "subjects"
  /\ pendingClicks = {}
  /\ moves = 0

\* no notifications, no NotificationSystem mounted
ToastsIdle ==
  /\ notificationRows = {}
  /\ notifications = <<>>
  /\ visibleNotifications = <<>>

ComponentsIdle == QuizIdle /\ AdminIdle /\ ToastsIdle /\ backfillRuns = 0

InitTables ==
  /\ role = [u \in Users |-> IF u = "admin1" THEN "admin" ELSE "user"]
  /\ subjects = {[id |-> "sft", name |-> "SFT"]}
  /\ subject_lessons = {[id |-> l, subject_id |-> "sft"] : l \in LessonIds}
  /\ lesson_videos =
       {[id |-> "v1", lesson_id |-> "l1", subject_id |-> "sft", position |-> 0],
        [id |-> "v2", lesson_id |-> "l2", subject_id |-> "sft", position |-> 0]}
  /\ lesson_requests = {}
  /\ user_lesson_access = {}
  /\ now = 0
  /\ last = Stmt(NoUser, "none", "-", "none")
  /\ userAccess = {}
  /\ enhancedSubjects = {}
  /\ feedSubjects = {}
  /\ authUser = NoUser
  /\ isAdmin = FALSE
  /\ history = <<"/">>

InitDb == InitTables /\ ComponentsIdle

\* lesson ids the request statements are tried with
RequestLessonInputs == {"l1", NoLesson}

NextRequests ==
  \/ \E a \in Users, r \in Roles : UpdateOwnProfile(a, r)
  \/ \E a \in Users, u \in Users, l \in RequestLessonInputs, s \in StatusInputs :
       InsertRequest(a, u, l, "sft", s)
  \/ \E a \in Users, i \in 1..MaxRequests, s \in StatusInputs : UpdateRequest(a, i, s)
  \/ \E a \in Users, i \in 1..MaxRequests : DeleteRequest(a, i)

SpecRequests == InitDb /\ [][NextRequests]_vars

\* user ids and expiry values the access statements are tried with
AccessUserInputs == {"user1", "user2"}
AccessExpiryInputs == {NULL, <<1>>}

NextAccess ==
  \/ \E a \in Users, r \in Roles : UpdateOwnProfile(a, r)
  \/ \E a \in Users, u \in AccessUserInputs, l \in LessonIds \cup {NoLesson},
        e \in AccessExpiryInputs : InsertAccess(a, u, l, "sft", e)
  \/ \E a \in Users, i \in 1..MaxAccess, l \in LessonIds \cup {NoLesson},
        e \in AccessExpiryInputs : UpdateAccess(a, i, l, e)
  \/ \E a \in Users, i \in 1..MaxAccess : DeleteAccess(a, i)

SpecAccess == InitDb /\ [][NextAccess]_vars

NextFeed ==
  \/ \E a \in Users, u \in AccessUserInputs, l \in LessonIds, e \in ExpiryInputs :
       InsertAccess(a, u, l, "sft", e)
  \/ \E a \in Users, i \in 1..MaxAccess : DeleteAccess(a, i)
  \/ Tick
  \/ LoadUserAccess
  \/ FeedLoadSubjects

SpecFeed == InitDb /\ [][NextFeed]_vars

\* the request and grant statements together, roles as after sign-up
NextWorkflow ==
  \/ \E a \in Users, u \in Users, l \in LessonIds, s \in StatusInputs :
       InsertRequest(a, u, l, "sft", s)
  \/ \E a \in Users, i \in 1..MaxRequests, s \in StatusInputs : UpdateRequest(a, i, s)
  \/ \E a \in Users, u \in AccessUserInputs, l \in LessonIds :
       InsertAccess(a, u, l, "sft", NULL)
  \/ \E a \in Users, i \in 1..MaxAccess : DeleteAccess(a, i)

SpecWorkflow == InitDb /\ [][NextWorkflow]_vars

NextRoutes ==
  \/ \E u \in Users \cup {NoUser}, admin \in BOOLEAN : AuthChange(u, admin)
  \/ \E p \in Paths : Visit(p)
  \/ Back
  \/ Redirect

SpecRoutes == InitDb /\ [][NextRoutes]_vars

\* ids the content statements of SpecContent create and address
ContentLessonIds == {"l1"}
ContentVideoIds == {"v1"}

\* the database after the migrations: the default subjects, no lessons
InitContent ==
  /\ role = [u \in Users |-> IF u = "admin1" THEN "admin" ELSE "user"]
  /\ subjects = {[id |-> "sft", name |-> "SFT"], [id |-> "et", name |-> "ET"]}
  /\ subject_lessons = {}
  /\ lesson_videos = {}
  /\ lesson_requests = {}
  /\ user_lesson_access = {}
  /\ now = 0
  /\ last = Stmt(NoUser, "none", "-", "none")
  /\ userAccess = {}
  /\ enhancedSubjects = {}
  /\ feedSubjects = {}
  /\ authUser = NoUser
  /\ isAdmin = FALSE
  /\ history = <<"/">>
  /\ ComponentsIdle

NextContent ==
  \/ \E a \in Users, r \in Roles : UpdateOwnProfile(a, r)
  \/ \E a \in Users, x \in SubjectIds, n \in SubjectNames : InsertSubject(a, x, n)
  \/ \E a \in Users, x \in SubjectIds, n \in SubjectNames : UpdateSubject(a, x, n)
  \/ \E a \in Users, x \in SubjectIds : DeleteSubject(a, x)
  \/ \E a \in Users, x \in SubjectIds : InsertLesson(a, ContentLessonIds, x)
  \/ \E a \in Users, l \in ContentLessonIds, x \in SubjectIds : UpdateLesson(a, l, x)
  \/ \E a \in Users, l \in ContentLessonIds : DeleteLesson(a, l)
  \/ \E a \in Users, l \in ContentLessonIds, x \in SubjectIds, p \in Positions :
       InsertVideo(a, ContentVideoIds, l, x, p)
  \/ \E a \in Users, v \in ContentVideoIds, p \in Positions : UpdateVideo(a, v, p)
  \/ \E a \in Users, v \in ContentVideoIds : DeleteVideo(a, v)

SpecContent == InitContent /\ [][NextContent]_vars

\* ------------------------------------------------------------------ quiz runner
\* QuizInterface mounted with some quiz, on its start screen (useState defaults)
InitQuiz ==
  /\ InitTables
  /\ quiz \in Quizzes
  /\ session = NULL
  /\ showStartScreen = TRUE
  /\ selectedAnswer = NoAnswer
  /\ timeRemaining = 0
  /\ timerClosure = NULL
  /\ onCompleteCalls = <<>>
  /\ AdminIdle
  /\ ToastsIdle
  /\ backfillRuns = 0

NextQuiz ==
  \/ StartQuiz
  \/ \E a \in Answers : handleAnswerSelect(a)
  \/ handleNextQuestion
  \/ handleSubmitQuiz
  \/ handlePreviousQuestion
  \/ TimerTick

SpecQuiz == InitQuiz /\ [][NextQuiz]_vars

\* the handlers called in every state of a running session
NextQuizCalls ==
  \/ StartQuiz
  \/ \E a \in Answers : handleAnswerSelect(a)
  \/ CallNextQuestion
  \/ CallSubmitQuiz
  \/ CallPreviousQuestion
  \/ TimerTick

SpecQuizCalls == InitQuiz /\ [][NextQuizCalls]_vars

\* ------------------------------------------------------------------ admin reordering
\* AdminFeedPage mounted for the admin (useState defaults); lesson l1 holds
\* v1, v2, v3 at positions 0, 1, 2 and lesson l2 holds v4
InitAdmin ==
  /\ role = [u \in Users |-> IF u = "admin1" THEN "admin" ELSE "user"]
  /\ subjects = {[id |-> "sft", name |-> "SFT"]}
  /\ subject_lessons = {[id |-> l, subject_id |-> "sft"] : l \in LessonIds}
  /\ lesson_videos =
       {[id |-> "v1", lesson_id |-> "l1", subject_id |-> "sft", position |-> 0],
        [id |-> "v2", lesson_id |-> "l1", subject_id |-> "sft", position |-> 1],
        [id |-> "v3", lesson_id |-> "l1", subject_id |-> "sft", position |-> 2],
        [id |-> "v4", lesson_id |-> "l2", subject_id |-> "sft", position |-> 0]}
  /\ lesson_requests = {}
  /\ user_lesson_access = {}
  /\ now = 0
  /\ last = Stmt(NoUser, "none", "-", "none")
  /\ userAccess = {}
  /\ enhancedSubjects = {}
  /\ feedSubjects = {}
  /\ authUser = AdminUser
  /\ isAdmin = TRUE
  /\ history = <<"/admin">>
  /\ QuizIdle
  /\ AdminIdle
  /\ ToastsIdle
  /\ backfillRuns = 0

NextAdmin ==
  \/ AdminLoadSubjects
  \/ \E s \in adminSubjects : ContainerClick("subject", s)
  \/ \E l \in (IF selectedSubject = NULL THEN {} ELSE selectedSubject.lessons) :
       ContainerClick("lesson", l)
  \/ \E c \in pendingClicks : ClickTimeout(c)
  \/ handleBackToSubjects
  \/ handleBackToLessons
  \/ \E v \in {"v1", "v2", "v3", NoVideo}, d \in Directions : handleMoveVideo(v, d)

SpecAdmin == InitAdmin /\ [][NextAdmin]_vars

\* AdminFeedPage mounted for the admin; the one lesson holds v1 and v2 at
\* positions 0 and 1
InitAdminVideos ==
  /\ role = [u \in Users |-> IF u = "admin1" THEN "admin" ELSE "user"]
  /\ subjects = {[id |-> "sft", name |-> "SFT"]}
  /\ subject_lessons = {[id |-> "l1", subject_id |-> "sft"]}
  /\ lesson_videos =
       {[id |-> "v1", lesson_id |-> "l1", subject_id |-> "sft", position |-> 0],
        [id |-> "v2", lesson_id |-> "l1", subject_id |-> "sft", position |-> 1]}
  /\ lesson_requests = {}
  /\ user_lesson_access = {}
  /\ now = 0
  /\ last = Stmt(NoUser, "none", "-", "none")
  /\ userAccess = {}
  /\ enhancedSubjects = {}
  /\ feedSubjects = {}
  /\ authUser = AdminUser
  /\ isAdmin = TRUE
  /\ history = <<"/admin">>
  /\ QuizIdle
  /\ AdminIdle
  /\ ToastsIdle
  /\ backfillRuns = 0

\* the page with its navigation and its three video operations
NextAdminVideos ==
  \/ AdminLoadSubjects
  \/ \E s \in adminSubjects : ContainerClick("subject", s)
  \/ \E l \in (IF selectedSubject = NULL THEN {} ELSE selectedSubject.lessons) :
       ContainerClick("lesson", l)
  \/ \E c \in pendingClicks : ClickTimeout(c)
  \/ handleBackToSubjects
  \/ handleBackToLessons
  \/ \E v \in {"v1", "v2"} \cup AddVideoIds, d \in Directions :
       handleMoveVideo(v, d)
  \/ handleAddVideo
  \/ \E v \in {"v1", "v2"} \cup AddVideoIds : handleDeleteVideo(v)

SpecAdminVideos == InitAdminVideos /\ [][NextAdminVideos]_vars

\* ------------------------------------------------------------------ notification toasts
\* the toasts of a browser in which users sign in and out, with finitely many
\* notifications delivered
NextToasts ==
  \/ \E u \in ToastUsers : ToastSignIn(u)
  \/ ToastSignOut
  \/ \E u \in ToastUsers, r \in BOOLEAN : ReceiveNotification(u, r)
  \/ ShowNewNotifications
  \/ \E n \in NotificationIds : handleClose(n)
  \/ \E n \in NotificationIds : AutoRemove(n)

SpecToasts == InitDb /\ [][NextToasts]_vars

\* every timeout that stays set fires
ToastTimers == \A n \in NotificationIds : WF_vars(AutoRemove(n))
SpecToastsFair == SpecToasts /\ ToastTimers

\* the same browser, with the notifications table holding one notification of
\* each user and every user sending it statements
InitNotifications ==
  /\ InitTables
  /\ QuizIdle
  /\ AdminIdle
  /\ notificationRows =
       {[id |-> 1, user_id |-> "user1", read_status |-> FALSE],
        [id |-> 2, user_id |-> "user2", read_status |-> FALSE]}
  /\ notifications = <<>>
  /\ visibleNotifications = <<>>
  /\ backfillRuns = 0

NextNotifications ==
  \/ NextToasts
  \/ \E a \in Users, n \in {1, 2}, u \in ToastUsers, r \in BOOLEAN :
       UpdateNotification(a, n, u, r)
  \/ \E a \in Users, n \in {1, 2} : DeleteNotification(a, n)

SpecNotifications == InitNotifications /\ [][NextNotifications]_vars

\* ------------------------------------------------------------------ position backfill
\* three videos, each in either lesson, created at any of the stamps
InitMigration ==
  /\ role = [u \in Users |-> IF u = "admin1" THEN "admin" ELSE "user"]
  /\ subjects = {[id |-> "sft", name |-> "SFT"]}
  /\ subject_lessons = {[id |-> l, subject_id |-> "sft"] : l \in LessonIds}
  /\ \E lessonOf \in [MigrationVideoIds -> LessonIds],
        createdAt \in [MigrationVideoIds -> Stamps] :
       lesson_videos = MigrationRows(lessonOf, createdAt)
  /\ lesson_requests = {}
  /\ user_lesson_access = {}
  /\ now = 0
  /\ last = Stmt(NoUser, "none", "-", "none")
  /\ userAccess = {}
  /\ enhancedSubjects = {}
  /\ feedSubjects = {}
  /\ authUser = NoUser
  /\ isAdmin = FALSE
  /\ history = <<"/">>
  /\ QuizIdle
  /\ AdminIdle
  /\ ToastsIdle
  /\ backfillRuns = 0

\* runs of the backfill, with the admin changing positions in between
NextMigration ==
  \/ Backfill
  \/ \E v \in MigrationVideoIds, p \in Positions : UpdateVideo(AdminUser, v, p)

SpecMigration == InitMigration /\ [][NextMigration]_vars

\* ------------------------------------------------------------------ content hierarchy
\* who runs the statements of SpecHierarchy, and the ids they address
HierarchyActors == {"admin1"}
HierarchyLessonIds == {"l1", "l2"}
HierarchyVideoIds == {"v1"}

\* content, requests and grants created, moved and deleted side by side
NextHierarchy ==
  \/ \E a \in HierarchyActors, x \in SubjectIds : DeleteSubject(a, x)
  \/ \E a \in HierarchyActors, x \in SubjectIds : InsertLesson(a, HierarchyLessonIds, x)
  \/ \E a \in HierarchyActors, l \in HierarchyLessonIds, x \in SubjectIds :
       UpdateLesson(a, l, x)
  \/ \E a \in HierarchyActors, l \in HierarchyLessonIds : DeleteLesson(a, l)
  \/ \E a \in HierarchyActors, l \in HierarchyLessonIds, x \in SubjectIds :
       InsertVideo(a, HierarchyVideoIds, l, x, 0)
  \/ \E a \in HierarchyActors, v \in HierarchyVideoIds : DeleteVideo(a, v)
  \/ \E l \in HierarchyLessonIds, x \in SubjectIds :
       InsertRequest("user1", "user1", l, x, DEFAULT)
  \/ \E a \in HierarchyActors, l \in HierarchyLessonIds, x \in SubjectIds :
       InsertAccess(a, "user1", l, x, NULL)
  \/ \E a \in HierarchyActors, i \in 1..MaxAccess, l \in HierarchyLessonIds :
       UpdateAccess(a, i, l, NULL)

SpecHierarchy == InitContent /\ [][NextHierarchy]_vars

\* ================================================================== claims
\* rows of the next state that the step inserted or changed
NewRequests == lesson_requests' \ lesson_requests
NewAccess == user_lesson_access' \ user_lesson_access
GoneAccess == user_lesson_access \ user_lesson_access'

\* C1: the status of a lesson request is set only by an admin's action: a
\* step by a user whose role is not admin leaves every request it inserts
\* 'pending' and changes the status of no request.
C1_StatusOnlyByAdmin ==
  [][\A r \in NewRequests :
       \/ role[last'.actor] = "admin"
       \/ /\ r.status = "pending"
          /\ \A q \in lesson_requests : q.id # r.id]_vars

\* C2: whenever a lesson request reaches status 'approved', a
\* user_lesson_access row for the request's (user_id, lesson_id) exists by
\* the end of the approving step.
HasGrant(rows, uid, lid) == \E g \in rows : g.user_id = uid /\ g.lesson_id = lid

C2_ApprovalCreatesAccess ==
  [][\A r \in NewRequests :
       (/\ r.status = "approved"
        /\ \E q \in lesson_requests : q.id = r.id /\ q.status # "approved")
       => HasGrant(user_lesson_access', r.user_id, r.lesson_id)]_vars

\* C3: a non-admin user is listed a lesson with its videos only if a
\* user_lesson_access row exists for that user and that lesson.
C3_VideosNeedGrant ==
  role[Viewer] # "admin" =>
    \A l \in feedSubjects \cup enhancedSubjects :
      HasGrant(user_lesson_access, Viewer, l.id)

\* C4: an access load puts a lesson in the user's accessible set (and in the
\* premium feed) only while the user's grant for it has expires_at null or
\* later than the current time.
Unexpired(g) == g.expires_at = NULL \/ g.expires_at[1] > now

C4_ExpiredNotLoaded ==
  [][LoadUserAccess =>
       \A lid \in userAccess' \cup {l.id : l \in enhancedSubjects'} :
         \E g \in user_lesson_access :
           g.user_id = Viewer /\ g.lesson_id = lid /\ Unexpired(g)]_vars

\* C5: every insert, update and delete of a user_lesson_access row is the
\* step of a user whose role is admin, and a non-admin user reads only the
\* rows whose user_id is their own.
AccessReadsIsolated ==
  \A u \in Users : role[u] # "admin" =>
    \A g \in SelectAccess(u) : g.user_id = u

C5_AccessSingleWriter ==
  [][/\ user_lesson_access' # user_lesson_access => role[last'.actor] = "admin"
     /\ AccessReadsIsolated']_vars

C5_Witness ==
  /\ last.op = "delete_access" /\ last.outcome = "no_rows"
  /\ role[last.actor] = "user"
  /\ Cardinality(user_lesson_access) = MaxAccess
  /\ \E g \in user_lesson_access : g.user_id = last.actor
  /\ \E g \in user_lesson_access : g \notin SelectAccess(last.actor)

\* C6: every lesson_requests row has a status in {pending, approved,
\* rejected}, and a request inserted with the status left to its default is
\* 'pending'.
C6_StatusDomain ==
  [][/\ \A r \in lesson_requests' : r.status \in Statuses
     /\ (last'.op = "insert_request" /\ last'.arg = DEFAULT /\ last'.outcome = "ok")
          => \A r \in NewRequests : r.status = "pending"]_vars

C6_Witness ==
  /\ last.op = "insert_request" /\ last.arg = DEFAULT /\ last.outcome = "ok"
  /\ \E r \in lesson_requests : r.status = "pending"

\* C7: no two user_lesson_access rows share a (user_id, lesson_id), and an
\* insertion that would duplicate a pair leaves the table unchanged.
UniquePairs ==
  \A g, h \in user_lesson_access :
    (g.user_id = h.user_id /\ g.lesson_id = h.lesson_id) => g = h

C7_UniqueGrant ==
  [][/\ UniquePairs'
     /\ (last'.op = "insert_access" /\ user_lesson_access' # user_lesson_access)
          => /\ GoneAccess = {}
             /\ \A g \in NewAccess :
                  ~HasGrant(user_lesson_access, g.user_id, g.lesson_id)]_vars

C7_Witness ==
  /\ last.op = "insert_access" /\ last.outcome = "unique_violation"
  /\ Cardinality(user_lesson_access) >= 2

\* C8: a non-admin user inserts a lesson request only with user_id equal to
\* their own id and reads only the requests whose user_id is their own.
RequestsIsolated ==
  \A u \in Users : role[u] # "admin" =>
    \A r \in SelectRequests(u) : r.user_id = u

C8_RequestIsolation ==
  [][/\ (last'.op = "insert_request" /\ role[last'.actor] # "admin")
          => \A r \in NewRequests : r.user_id = last'.actor
     /\ RequestsIsolated']_vars

C8_Witness ==
  /\ last.op = "insert_request" /\ last.outcome = "rls_violation"
  /\ role[last.actor] = "user"
  /\ \E r \in lesson_requests :
       /\ r.user_id # last.actor
       /\ r \notin SelectRequests(last.actor)
       /\ \E a \in Users : role[a] = "admin" /\ r \in SelectRequests(a)

\* C9: with no user signed in only the auth screen is rendered; for a
\* signed-in user who is not admin the AdminDashboard is never rendered and
\* /admin redirects to /dashboard; "/" redirects to /admin for admins and to
\* /dashboard for others; unknown paths redirect to "/".
RouteGate ==
  /\ authUser = NoUser => Rendered = "AuthScreen"
  /\ (authUser # NoUser /\ ~isAdmin) => Rendered # "AdminDashboard"
  /\ (authUser # NoUser /\ Rendered = "-") => ENABLED Redirect

Redirected ==
  /\ Len(history') = Len(history)
  /\ history' # history

C9_RouteGating ==
  [][/\ RouteGate'
     /\ Redirected =>
          /\ authUser # NoUser
          /\ SubSeq(history', 1, Len(history) - 1) = SubSeq(history, 1, Len(history) - 1)
          /\ Location = "/" => Location' = IF isAdmin THEN "/admin" ELSE "/dashboard"
          /\ Location = "/admin" => (~isAdmin /\ Location' = "/dashboard")
          /\ Location # "/dashboard"
          /\ Location \notin {"/", "/admin", "/dashboard"} => Location' = "/"]_vars

C9_Witness ==
  /\ authUser # NoUser /\ ~isAdmin
  /\ Location = "/admin"
  /\ Rendered = "-" /\ AppRoutes = Navigate("/dashboard")

\* C10: every insert, update and delete on subjects, subject_lessons and
\* lesson_videos is the step of a user whose role is admin (a non-admin's
\* step leaves the three tables unchanged), and every authenticated user
\* reads all their rows.
ContentReadable ==
  \A u \in Users :
    /\ SelectSubjects(u) = subjects
    /\ SelectLessons(u) = subject_lessons
    /\ SelectVideos(u) = lesson_videos

C10_ContentAdminManaged ==
  [][/\ content' # content => role[last'.actor] = "admin"
     /\ ContentReadable']_vars

C10_Witness ==
  /\ last.op = "update_video" /\ last.outcome = "no_rows"
  /\ role[last.actor] = "user"
  /\ \A v \in ContentVideoIds : \E x \in SelectVideos(last.actor) : x.id = v

\* ------------------------------------------------------------------ quiz runner claims
\* a session that was started and is not completed
Running == QuizShown /\ ~session.isCompleted

\* the session of the last onComplete call
LastCall(calls) == calls[Len(calls)]

\* C11: auto-submit on time-up.  Every firing of the timer that leaves no time
\* remaining, on a started and not yet completed session, completes the session
\* with timeRemaining 0 and calls onComplete with that completed session; the
\* step is the timer's alone, no click takes part in it.
C11_AutoSubmit ==
  [][(Running /\ TimerTick /\ timeRemaining' = 0)
       => /\ session'.isCompleted
          /\ session'.timeRemaining = 0
          /\ Len(onCompleteCalls') > Len(onCompleteCalls)
          /\ LastCall(onCompleteCalls') = session']_vars

\* a quiz with time on its clock ran out: completed at 0 with one onComplete call
C11_Witness ==
  /\ quiz # NULL /\ quiz.seconds > 0
  /\ session # NULL /\ session.isCompleted /\ session.timeRemaining = 0
  /\ timeRemaining = 0
  /\ onCompleteCalls = <<session>>

\* responses holds one response for each of the first n questions, in order
OnePerQuestion(responses, n) ==
  /\ Len(responses) = n
  /\ \A i \in 1..n : responses[i].questionId = quiz.questions[i].id

\* C12: navigation keeps one response per question.  While the session runs,
\* responses holds exactly one response for each question before the current
\* one, in question order, and the session Submit passes to onComplete holds
\* exactly one response for each question of the quiz.
C12_OneResponsePerQuestion ==
  [][/\ Running' => OnePerQuestion(session'.responses, session'.currentQuestionIndex)
     /\ (Running /\ handleSubmitQuiz)
          => OnePerQuestion(LastCall(onCompleteCalls').responses,
                            Len(quiz.questions))]_vars

\* the places of responses that hold a response for question qid
PlacesOf(responses, qid) ==
  {i \in 1..Len(responses) : responses[i].questionId = qid}

\* the answer of the response confirmed last for question qid
LastConfirmed(responses, qid) ==
  LET places == PlacesOf(responses, qid)
      latest == CHOOSE i \in places : \A j \in places : j <= i
  IN responses[latest].selectedAnswer

\* C18: going back re-edits the previous question.  A click on Previous shows
\* as selected the answer confirmed last for the question it goes back to, and
\* a click on Next leaves exactly one response for the question it confirms,
\* the one holding the answer selected at the click.
C18_PreviousReedits ==
  [][/\ (Running /\ handlePreviousQuestion)
          => selectedAnswer' =
               LastConfirmed(session.responses, CurrentQuestion(session').id)
     /\ (Running /\ handleNextQuestion)
          => \A i \in PlacesOf(session'.responses, CurrentQuestion(session).id) :
               /\ i = Len(session'.responses)
               /\ session'.responses[i].selectedAnswer = selectedAnswer]_vars

C20_CompletesOnce ==
  [][/\ Len(onCompleteCalls') <= 1
     /\ (QuizShown /\ session.isCompleted)
          => session'.responses = session.responses]_vars

\* the index of the question shown is one of the quiz's questions
IndexInRange(s) ==
  0 <= s.currentQuestionIndex /\ s.currentQuestionIndex <= Len(quiz.questions) - 1

ClockFrame ==
  /\ timeRemaining' >= 0
  /\ StartQuiz => timeRemaining' = quiz.seconds
  /\ (showStartScreen /\ showStartScreen') => timeRemaining' = timeRemaining
  /\ (session # NULL /\ session.isCompleted) => timeRemaining' = timeRemaining

\* C22: quiz timer.  timeRemaining is set to quiz.timeLimit * 60 when the quiz
\* starts, decreases by exactly 1 with every tick, is never negative, and does
\* not change on the start screen or once the session is completed.
C22_TimerCountsDown ==
  [][ClockFrame /\ (TimerTick => timeRemaining' = timeRemaining - 1)]_vars

\* C22 as the code has it: a tick takes 1 off a clock that shows 1 or more and
\* leaves a clock that shows 0 at 0.
C22_TimerCountsDownToZero ==
  [][/\ ClockFrame
     /\ TimerTick => timeRemaining' = IF timeRemaining >= 1
                                       THEN timeRemaining - 1
                                       ELSE 0]_vars

\* a running session one tick after its start, with time left
C22_Witness ==
  /\ Running
  /\ timeRemaining >= 1
  /\ timeRemaining = session.timeRemaining - 1

\* ------------------------------------------------------------------ admin reordering claims
\* the ids of the videos of lesson lid among rows, in ascending position
PersistedOrder(rows, lid) ==
  LET q == CHOOSE q \in QueryOrders({v \in rows : v.lesson_id = lid}) : TRUE
  IN [i \in 1..Len(q) |-> q[i].id]

\* the 1-based place of id in order, 0 when absent
PlaceOf(order, id) ==
  IF \E i \in 1..Len(order) : order[i] = id
  THEN CHOOSE i \in 1..Len(order) : order[i] = id
  ELSE 0

\* C13: manual reordering.  Every handleMoveVideo(videoId, direction) call on
\* the selected lesson either swaps the video with its neighbour in the
\* persisted order (position order in lesson_videos) and changes nothing else,
\* or, when the video is first and moved up, last and moved down, or unknown,
\* issues no write.
C13_MoveIsOneSwap ==
  [][moves' = moves + 1
       => LET lid == selectedLesson.id
              before == PersistedOrder(lesson_videos, lid)
              after == PersistedOrder(lesson_videos', lid)
              place == PlaceOf(before, last'.arg)
              target == IF last'.op = "move_up" THEN place - 1 ELSE place + 1
          IN IF place = 0 \/ target < 1 \/ target > Len(before)
             THEN last'.outcome = "none" /\ lesson_videos' = lesson_videos
             ELSE /\ last'.outcome = "ok"
                  /\ after = [before EXCEPT ![place] = before[target],
                                            ![target] = before[place]]
                  /\ \A v \in lesson_videos :
                       v.lesson_id # lid => v \in lesson_videos']_vars

\* ------------------------------------------------------------------ notification claims
\* the notification is marked read in useData().notifications
IsRead(notificationId) ==
  \E i \in 1..Len(notifications) :
    notifications[i].id = notificationId /\ notifications[i].readStatus

\* C14 as stated: every visible toast is eventually off the visible list and
\* marked read (its timeout fires if nothing else removes it).
C14_EventuallyReadAndGone ==
  \A n \in NotificationIds : IsVisible(n) ~> (~IsVisible(n) /\ IsRead(n))

\* C14, amended: every visible toast is eventually off the visible list, and
\* it is marked read then unless the user signed out while it was visible.
C14_EventuallyGone ==
  \A n \in NotificationIds :
    IsVisible(n) ~> (~IsVisible(n) /\ (IsRead(n) \/ authUser = NoUser))

\* a timeout has closed a toast and marked it read while a later one is shown
C14_Witness ==
  /\ last.op = "close" /\ last.outcome = "timeout"
  /\ authUser # NoUser
  /\ \E n \in NotificationIds : IsRead(n) /\ ~IsVisible(n)
  /\ \E n \in NotificationIds : IsVisible(n)

\* every toast shown is the signed-in user's and was unread when it was added
ToastsAreOwn ==
  \A i \in 1..Len(visibleNotifications) :
    /\ visibleNotifications[i].userId = authUser
    /\ ~visibleNotifications[i].readStatus

\* what a user can read of the notifications table is that user's own
ReadsAreOwn ==
  \A u \in Users : \A n \in SelectNotifications(u) : n.user_id = u

Sequential ==
  \A l \in BackfillLessons :
    LET rows == {v \in lesson_videos : v.lesson_id = l}
    IN /\ {v.position : v \in rows} = 0..(Cardinality(rows) - 1)
       /\ \A a, b \in rows : a.position = b.position => a = b
       /\ \A a, b \in rows : a.created_at < b.created_at => a.position < b.position

\* C16: position backfill.  After a run of the migration the videos of every
\* lesson with n videos hold exactly the positions 0..n-1 in ascending
\* created_at order, each lesson numbered on its own, and a run that follows a
\* run directly leaves every position as it is.
C16_BackfillSequentialAndStable ==
  [][backfillRuns' = backfillRuns + 1
       => /\ Sequential'
          /\ last.op = "backfill" => lesson_videos' = lesson_videos]_vars

\* ------------------------------------------------------------------ content hierarchy claims
\* every reference of the five tables points at a row that exists
References(rows) ==
  \A r \in rows : LessonExists(r.lesson_id) /\ SubjectExists(r.subject_id)

Intact ==
  /\ \A l \in subject_lessons : SubjectExists(l.subject_id)
  /\ References(lesson_videos)
  /\ References(lesson_requests)
  /\ References(user_lesson_access)

\* nothing of the new state hangs on a subject or lesson the step deleted
DependentsGone ==
  LET goneSubjects == {x.id : x \in subjects} \ {x.id : x \in subjects'}
      goneLessons == {l.id : l \in subject_lessons} \ {l.id : l \in subject_lessons'}
      Free(rows) == \A r \in rows : /\ r.subject_id \notin goneSubjects
                                      /\ r.lesson_id \notin goneLessons
  IN /\ \A l \in subject_lessons' : l.subject_id \notin goneSubjects
     /\ Free(lesson_videos')
     /\ Free(lesson_requests')
     /\ Free(user_lesson_access')

\* C17: referential integrity.  In every reachable state each lesson
\* references an existing subject and each video, request and access grant
\* references an existing lesson and an existing subject; a step that deletes
\* a subject or a lesson leaves no lesson, video, request or grant that
\* references it.
C17_HierarchyIntact == Intact /\ [][Intact' /\ DependentsGone]_vars

\* a lesson with a video, a request and a grant was deleted, and the other
\* lesson still has all of its rows
C17_Witness ==
  /\ last.op = "delete_lesson" /\ last.outcome = "ok"
  /\ Cardinality(subject_lessons) = 1
  /\ lesson_requests # {}
  /\ user_lesson_access # {}

\* ------------------------------------------------------------------ video position claims
\* C23: positions stay distinct.  After any sequence of the page's add-video,
\* move-video and delete-video operations, each with its reload, no two
\* lesson_videos rows of one lesson hold the same position.
C23_PositionsDistinct ==
  \A a, b \in lesson_videos :
    (a.lesson_id = b.lesson_id /\ a.position = b.position) => a = b

\* ------------------------------------------------------------------ admin navigation claims
\* C24: the view has its selection.  In every state of AdminFeedPage the
\* lessons view has a selected subject and the videos view has a selected
\* subject and a selected lesson, so that one of the three views is rendered,
\* whatever the order of container clicks, their delayed actions and Back.
C24_ViewHasSelection ==
  /\ currentView = "lessons" => selectedSubject # NULL
  /\ currentView = "videos" => (selectedSubject # NULL /\ selectedLesson # NULL)

====
